---- MODULE Spec2Model ----
(***************************************************************************)
(* Model of neo4j_db_utils: the sequential map-reduce of build_import.py   *)
(* (map_and_reduce, write_nodes, write_relationships, run) and the entity  *)
(* definitions of import_defs.py (Node.validate, Node._merge_values,       *)
(* RelId, SimpleRelationship, cleanup_text, cleanup_id).                   *)
(* The last part models neoctl.py: main and the commands create, start,    *)
(* stop, destroy and status on a host with docker.                         *)
(*                                                                         *)
(* Python strings are sequences of code points, so that str.replace, the   *)
(* "in" test, string ordering and the translate tables are computed as     *)
(* Python computes them.                                                   *)
(***************************************************************************)
EXTENDS Integers, Sequences, FiniteSets, TLC

VARIABLES
    pc,                  \* position of the running call
    err,                 \* the exception that ended the call, or NoError
    parsed_args,         \* run: output_node_files, output_edge_files, sorted
    fs_dirs,             \* directories that exist on the file system
    taken,               \* number of records taken from the generator
    mapped,              \* history: candidates returned by map_input so far
    nodes,               \* map_and_reduce: nodes / write_nodes: its argument
    nodes_to_index,      \* map_and_reduce: key -> position in nodes (0-based)
    relationships,       \* map_and_reduce / write_relationships argument
    rels_to_index,       \* map_and_reduce: rel_id -> position (0-based)
    num_node_reductions,
    num_edge_reductions,
    template,            \* write_*: the path template argument
    wi,                  \* write_*: 1-based position of the for loop
    output_files,        \* write_*: the output_files dict, key -> stream no.
    streams,             \* every OutputFile constructed so far
    merge_in,            \* Node.reduce called alone: <<self, other>>
    merge_out,           \* Node.reduce called alone: its outcome
    argv,                \* neoctl main: command list, password
    ci,                  \* neoctl main: 1-based position in the command list
    host,                \* neoctl: directories, cid file, container
    trace                \* neoctl: docker invocations and file operations made

vars == <<pc, err, parsed_args, fs_dirs, taken, mapped, nodes, nodes_to_index,
          relationships, rels_to_index, num_node_reductions,
          num_edge_reductions, template, wi, output_files, streams,
          merge_in, merge_out, argv, ci, host, trace>>

-----------------------------------------------------------------------------
(* Bounds of the model *)

MaxRecords == 2      \* records the generator yields at most
MaxNodes == 3        \* length of a node list handed to write_nodes directly
MaxRels == 3         \* length of a list handed to write_relationships directly
MaxTextLen == 3      \* length of a string cell handed to the cell sanitization
MaxElemLen == 2      \* length of an element of a list cell
MaxList == 2         \* length of a list cell
MaxCommands == 2     \* length of the command list given to neoctl

-----------------------------------------------------------------------------
(* Strings *)

\* ord() of the characters the model writes
Ord == ("m" :> 109) @@ ("n" :> 110) @@ ("r" :> 114) @@ ("o" :> 111) @@
       ("t" :> 116) @@ ("e" :> 101) @@ ("u" :> 117) @@ ("a" :> 97) @@
       ("l" :> 108) @@ ("s" :> 115) @@ ("f" :> 102) @@
       ("x" :> 120) @@ ("y" :> 121) @@ ("_" :> 95) @@ ("/" :> 47) @@
       ("N" :> 78) @@ ("O" :> 79) @@ ("D" :> 68) @@ ("E" :> 69) @@
       ("G" :> 71) @@ ("L" :> 76) @@ ("A" :> 65) @@ ("B" :> 66) @@
       (";" :> 59) @@ (" " :> 32) @@ ("\t" :> 9) @@ ("\n" :> 10) @@
       ("\r" :> 13) @@ ("w" :> 119) @@ (":" :> 58) @@ ("(" :> 40) @@
       (")" :> 41) @@ ("I" :> 73) @@ ("S" :> 83) @@ ("T" :> 84) @@
       ("R" :> 82) @@ ("Y" :> 89) @@ ("P" :> 80) @@ ("i" :> 105) @@
       ("d" :> 100) @@ ("-" :> 45)

Str(cs) == [i \in 1..Len(cs) |-> Ord[cs[i]]]

\* sub in s  (Python's substring test)
Contains(s, sub) ==
    \E i \in 0..(Len(s) - Len(sub)) : SubSeq(s, i + 1, i + Len(sub)) = sub

\* s.replace(old, new): leftmost, non-overlapping occurrences
RECURSIVE Replace(_, _, _)
Replace(s, old, new) ==
    IF Len(s) < Len(old) \/ Len(old) = 0 THEN s
    ELSE IF SubSeq(s, 1, Len(old)) = old
         THEN new \o Replace(SubSeq(s, Len(old) + 1, Len(s)), old, new)
         ELSE <<s[1]>> \o Replace(Tail(s), old, new)

\* s < t in Python's ordering of strings (by code point, prefix first)
RECURSIVE StrLess(_, _)
StrLess(s, t) ==
    IF Len(t) = 0 THEN FALSE
    ELSE IF Len(s) = 0 THEN TRUE
    ELSE IF s[1] # t[1] THEN s[1] < t[1]
    ELSE StrLess(Tail(s), Tail(t))

\* tuples of strings compare component by component
RECURSIVE TupleLess(_, _)
TupleLess(a, b) ==
    IF Len(a) = 0 \/ Len(b) = 0 THEN Len(a) < Len(b)
    ELSE IF a[1] # b[1] THEN StrLess(a[1], b[1])
    ELSE TupleLess(Tail(a), Tail(b))

-----------------------------------------------------------------------------
(* Python values held by attributes and row cells *)

None == [t |-> "None"]
PyStr(s) == [t |-> "str", s |-> s]
PyInt(i) == [t |-> "int", i |-> i]

NoError == [kind |-> "none"]

\* the values an attribute takes in the model
AttrVals == {None, PyStr(<<>>), PyInt(5), PyInt(7)}

\* the attributes of the model's node class; x is required
Attrs == {"x", "y"}
REQUIRED_ATTRS == <<"x">>

NodeTypes == {Str(<<"m">>), Str(<<"n", "_", "m">>)}
NodeIds == {Str(<<"x">>), Str(<<"y">>)}

MkNode(ty, id, x, y) ==
    [node_type |-> ty, node_id |-> id, attrs |-> [a \in Attrs |-> IF a = "x" THEN x ELSE y]]

get_node_type(n) == n.node_type
get_node_id(n) == n.node_id

-----------------------------------------------------------------------------
(* import_defs.py: Node *)

Returned(v) == [ok |-> TRUE, val |-> v]
Raised(e) == [ok |-> FALSE, exc |-> e]

MergeError(ty, attribute, self_val, other_val) ==
    [kind |-> "MergeError", node_type |-> ty, attribute |-> attribute,
     self_val |-> self_val, other_val |-> other_val]

ValidationError(n, attr) ==
    [kind |-> "ValidationError", node_id |-> get_node_id(n),
     node_type |-> get_node_type(n), attribute |-> attr]

\* _merge_values returning other's None instead of self's value
merge_values_none_wins(self, other, attribute) ==
    LET self_val == self.attrs[attribute]
        other_val == other.attrs[attribute]
    IN  IF self_val = other_val THEN Returned(self_val)
        ELSE IF other_val = None THEN Returned(other_val)
        ELSE IF self_val = None THEN Returned(other_val)
        ELSE Raised(MergeError(get_node_type(self), attribute, self_val, other_val))

\* _merge_values keeping self's value on a conflict instead of raising
merge_values_first_wins(self, other, attribute) ==
    LET self_val == self.attrs[attribute]
        other_val == other.attrs[attribute]
    IN  IF self_val = other_val THEN Returned(self_val)
        ELSE IF other_val = None THEN Returned(self_val)
        ELSE IF self_val = None THEN Returned(other_val)
        ELSE Returned(self_val)

\* Node._merge_values(self, other, attribute)
_merge_values(self, other, attribute) ==
    LET self_val == self.attrs[attribute]
        other_val == other.attrs[attribute]
    IN  IF self_val = other_val THEN Returned(self_val)
        ELSE IF other_val = None THEN Returned(self_val)
        ELSE IF self_val = None THEN Returned(other_val)
        ELSE Raised(MergeError(get_node_type(self), attribute, self_val, other_val))

\* Node.reduce of a node class that merges each of its attributes with
\* _merge_values, in the order x, y, and returns self
reduce(self, other) ==
    LET mx == _merge_values(self, other, "x")
        my == _merge_values(self, other, "y")
    IN  IF ~mx.ok THEN mx
        ELSE IF ~my.ok THEN my
        ELSE Returned([self EXCEPT !.attrs = [a \in Attrs |->
                                        IF a = "x" THEN mx.val ELSE my.val]])

\* Node.validate(self): the first required attribute without a value
RECURSIVE validate_from(_, _)
validate_from(self, k) ==
    IF k > Len(REQUIRED_ATTRS) THEN Returned(None)
    ELSE LET value == self.attrs[REQUIRED_ATTRS[k]]
         IN  IF value = None \/ value = PyStr(<<>>)
             THEN Raised(ValidationError(self, REQUIRED_ATTRS[k]))
             ELSE validate_from(self, k + 1)

validate(self) == validate_from(self, 1)

-----------------------------------------------------------------------------
(* import_defs.py: RelId, SimpleRelationship *)

MkRelId(st, sid, rt, dt, did) ==
    [t |-> "RelId", source_type |-> st, source_id |-> sid, rel_type |-> rt,
     dest_type |-> dt, dest_id |-> did]

\* the namedtuple as the tuple Python compares and hashes
RelTuple(r) == <<r.source_type, r.source_id, r.rel_type, r.dest_type, r.dest_id>>

\* a Relationship subclass with one property, weight, beside its id
MkRel(rel_id, weight) == [t |-> "Rel", rel_id |-> rel_id, weight |-> weight]

\* SimpleRelationship.get_rel_id(self): the relationship is its own id; the
\* subclass with a property returns the id it holds
get_rel_id(rel) == IF rel.t = "Rel" THEN rel.rel_id ELSE rel

\* reduce with the assert statement compiled away
rel_reduce_unchecked(self, other) == Returned(self)

\* SimpleRelationship.reduce(self, other)
rel_reduce(self, other) ==
    IF RelTuple(self) = RelTuple(other) THEN Returned(self)
    ELSE Raised([kind |-> "AssertionError"])

\* SimpleRelationship.to_csv_row(self); the subclass with a property gives
\* one value per column, the property after the three of the id
rel_to_csv_row(self) ==
    IF self.t = "Rel"
    THEN <<self.rel_id.source_id, self.rel_id.dest_id, self.rel_id.rel_type, self.weight>>
    ELSE <<self.source_id, self.dest_id, self.rel_type>>

\* the relationships of the model: an edge, its reverse, and two edges whose
\* types differ only in where the underscore falls
RelIds ==
    { MkRelId(Str(<<"m">>), Str(<<"x">>), Str(<<"r">>), Str(<<"m">>), Str(<<"y">>)),
      MkRelId(Str(<<"m">>), Str(<<"y">>), Str(<<"r">>), Str(<<"m">>), Str(<<"x">>)),
      MkRelId(Str(<<"n", "_", "m">>), Str(<<"x">>), Str(<<"r">>), Str(<<"m">>), Str(<<"y">>)),
      MkRelId(Str(<<"m">>), Str(<<"x">>), Str(<<"r", "_", "n">>), Str(<<"m">>), Str(<<"y">>)) }

-----------------------------------------------------------------------------
(* build_import.py: map_and_reduce *)

\* the values of attribute x on the nodes map_input produces
MapVals == {None, PyInt(5), PyInt(7)}

\* the relationships map_input produces: those of type r
MapRelIds == { r \in RelIds : r.rel_type = Str(<<"r">>) }

CandNodes == { MkNode(ty, id, x, None) : ty \in NodeTypes, id \in NodeIds, x \in MapVals }

\* what map_input returns for a record: (new_nodes, new_relationships)
MapOutputs ==
    { [new_nodes |-> ns, new_relationships |-> rs] :
        ns \in {<<>>} \cup { <<n>> : n \in CandNodes },
        rs \in {<<>>} \cup { <<r>> : r \in MapRelIds } }

\* the key under which map_and_reduce indexes a node
NodeKey(node) == get_node_id(node)

\* list[index] of Python: only an integer indexes a list
list_getitem(list, index) ==
    IF index.t # "int" THEN Raised([kind |-> "TypeError"])
    ELSE IF index.i < 0 - Len(list) \/ index.i >= Len(list)
         THEN Raised([kind |-> "IndexError"])
    ELSE IF index.i < 0 THEN Returned(list[Len(list) + index.i + 1])
    ELSE Returned(list[index.i + 1])

\* the locals of map_and_reduce before the first record
MapLocals0 ==
    [nodes |-> <<>>, nodes_to_index |-> <<>>, relationships |-> <<>>,
     rels_to_index |-> <<>>, num_node_reductions |-> 0,
     num_edge_reductions |-> 0, exc |-> NoError]

\* the node loop without the count of reductions
RECURSIVE merge_nodes_uncounted(_, _)
merge_nodes_uncounted(st, new_nodes) ==
    IF new_nodes = <<>> \/ st.exc # NoError THEN st
    ELSE LET node == Head(new_nodes)
             node_id == NodeKey(node)
         IN  IF node_id \in DOMAIN st.nodes_to_index
             THEN LET idx == st.nodes_to_index[node_id]
                      r == reduce(st.nodes[idx + 1], node)
                  IN  IF r.ok
                      THEN merge_nodes_uncounted([st EXCEPT !.nodes[idx + 1] = r.val],
                                       Tail(new_nodes))
                      ELSE [st EXCEPT !.exc = r.exc]
             ELSE merge_nodes_uncounted([st EXCEPT !.nodes = Append(@, node),
                                         !.nodes_to_index = @ @@ (node_id :> Len(st.nodes))],
                              Tail(new_nodes))

\* for node in new_nodes: ...
RECURSIVE merge_nodes(_, _)
merge_nodes(st, new_nodes) ==
    IF new_nodes = <<>> \/ st.exc # NoError THEN st
    ELSE LET node == Head(new_nodes)
             node_id == NodeKey(node)
         IN  IF node_id \in DOMAIN st.nodes_to_index
             THEN LET idx == st.nodes_to_index[node_id]
                      r == reduce(st.nodes[idx + 1], node)
                  IN  IF r.ok
                      THEN merge_nodes([st EXCEPT !.nodes[idx + 1] = r.val,
                                                  !.num_node_reductions = @ + 1],
                                       Tail(new_nodes))
                      ELSE [st EXCEPT !.exc = r.exc]
             ELSE merge_nodes([st EXCEPT !.nodes = Append(@, node),
                                         !.nodes_to_index = @ @@ (node_id :> Len(st.nodes))],
                              Tail(new_nodes))

\* for rel in new_relationships: ...
RECURSIVE merge_rels(_, _)
merge_rels(st, new_relationships) ==
    IF new_relationships = <<>> \/ st.exc # NoError THEN st
    ELSE LET rel == Head(new_relationships)
             rel_id == get_rel_id(rel)
         IN  IF rel_id \in DOMAIN st.rels_to_index
             THEN LET idx == st.rels_to_index[rel_id]
                      stored == list_getitem(st.relationships, rel_id)
                      r == rel_reduce(stored.val, rel)
                  IN  IF ~stored.ok THEN [st EXCEPT !.exc = stored.exc]
                      ELSE IF ~r.ok THEN [st EXCEPT !.exc = r.exc]
                      ELSE merge_rels([st EXCEPT !.rels_to_index[rel_id] = r.val,
                                                 !.num_edge_reductions = @ + 1],
                                      Tail(new_relationships))
             ELSE merge_rels([st EXCEPT !.relationships = Append(@, rel),
                                        !.rels_to_index = @ @@ (rel_id :> Len(st.relationships))],
                             Tail(new_relationships))

\* the body of the for loop of map_and_reduce for one record
map_one(st, out) == merge_rels(merge_nodes(st, out.new_nodes), out.new_relationships)

-----------------------------------------------------------------------------
(* import_defs.py: cleanup_text *)

\* string.printable
Printable == (32..126) \cup {9, 10, 11, 12, 13}

NONPRINTABLE == {10, 13, 11, 12} \cup ((0..127) \ Printable)

\* a table that deletes the characters instead of replacing them
XLATE_delete(c) ==
    IF c = 9 \/ c \in NONPRINTABLE THEN <<>> ELSE <<c>>

\* XLATE[c], or c itself when the table has no entry for it
XLATE(c) ==
    IF c = 9 THEN <<32>>
    ELSE IF c \in NONPRINTABLE THEN <<183>>
    ELSE <<c>>

\* text.translate(XLATE)
RECURSIVE translate_text(_)
translate_text(text) ==
    IF text = <<>> THEN <<>> ELSE XLATE(Head(text)) \o translate_text(Tail(text))

cleanup_text(text) == translate_text(text)

\* XLATE_IDS[c], or c itself when the table has no entry for it
XLATE_IDS(c) ==
    IF c = 32 \/ c = 9 THEN <<>>
    ELSE IF c \in NONPRINTABLE THEN <<183>>
    ELSE <<c>>

\* cleanup_id(text): text.translate(XLATE_IDS)
RECURSIVE cleanup_id(_)
cleanup_id(text) ==
    IF text = <<>> THEN <<>> ELSE XLATE_IDS(Head(text)) \o cleanup_id(Tail(text))

-----------------------------------------------------------------------------
(* build_import.py: OutputFile, write_nodes, write_relationships *)

PyList(l) == [t |-> "list", l |-> l]
PyBool(b) == [t |-> "bool", b |-> b]

\* sep.join(l)
RECURSIVE join(_, _)
join(sep, l) ==
    IF l = <<>> THEN <<>>
    ELSE IF Len(l) = 1 THEN l[1]
    ELSE l[1] \o sep \o join(sep, Tail(l))

\* str(i) of an integer
RECURSIVE int_str(_)
int_str(i) ==
    IF i < 0 THEN <<45>> \o int_str(0 - i)
    ELSE IF i < 10 THEN <<48 + i>>
    ELSE int_str(i \div 10) \o <<48 + (i % 10)>>

\* the cell loop with a list cell joined but not cleaned
sanitize_cell_list_joined_only(cell) ==
    IF cell.t = "list" THEN join(Str(<<";">>), cell.l)
    ELSE IF cell.t = "bool" THEN (IF cell.b THEN Str(<<"t", "r", "u", "e">>)
                                  ELSE Str(<<"f", "a", "l", "s", "e">>))
    ELSE IF cell.t = "str" THEN cleanup_text(cell.s)
    ELSE IF cell.t = "int" THEN int_str(cell.i)
    ELSE Str(<<"N", "o", "n", "e">>)

\* the text written for one cell of a node row (write_nodes, the loop on row)
sanitize_cell(cell) ==
    IF cell.t = "list" THEN cleanup_text(join(Str(<<";">>), cell.l))
    ELSE IF cell.t = "bool" THEN (IF cell.b THEN Str(<<"t", "r", "u", "e">>)
                                  ELSE Str(<<"f", "a", "l", "s", "e">>))
    ELSE IF cell.t = "str" THEN cleanup_text(cell.s)
    ELSE IF cell.t = "int" THEN int_str(cell.i)
    ELSE Str(<<"N", "o", "n", "e">>)

\* to_csv_row of the model's node class: id, attributes, label
to_csv_row(node) ==
    <<PyStr(node.node_id), node.attrs["x"], node.attrs["y"], PyStr(node.node_type)>>

sanitize_row(row) == [i \in 1..Len(row) |-> sanitize_cell(row[i])]

\* mr.get_node_header_row(ntype) of the model's MapReduceTemplate
get_node_header_row(ntype) ==
    << Str(<<"i", "d", ":", "I", "D", "(">>) \o ntype \o Str(<<")">>),
       Str(<<"x">>), Str(<<"y">>), Str(<<":", "L", "A", "B", "E", "L">>) >>

\* mr.get_rel_header_row = SimpleRelationship.get_header_row
get_rel_header_row(rel_type, from_type, to_type) ==
    << Str(<<":", "S", "T", "A", "R", "T", "_", "I", "D", "(">>) \o from_type \o Str(<<")">>),
       Str(<<":", "E", "N", "D", "_", "I", "D", "(">>) \o to_type \o Str(<<")">>),
       Str(<<":", "T", "Y", "P", "E">>) >>

NODE_LABEL == Str(<<"N", "O", "D", "E", "_", "L", "A", "B", "E", "L">>)
EDGE_LABEL == Str(<<"E", "D", "G", "E", "_", "L", "A", "B", "E", "L">>)

\* OutputFile(fname): open(fname, 'w'), rows = 0
OutputFile(fname) == [fname |-> fname, rows |-> 0, written |-> <<>>, closes |-> 0]

\* the exceptions the collaborators of the writers can raise
Faults == {"none", "open", "header", "to_csv_row", "sanitize", "writerow"}

FaultError(fault) ==
    IF fault = "open" \/ fault = "writerow" THEN [kind |-> "OSError"]
    ELSE [kind |-> "CollaboratorError"]

\* the locals of a writer: the dict, the streams, the exception in flight
WriterState(of, ss, exc) == [output_files |-> of, streams |-> ss, exc |-> exc]

\* write_nodes keyed by the node id instead of the node type
node_partition_by_id(node) == get_node_id(node)

\* the partition key of a node / of a relationship
node_partition(node) == get_node_type(node)
rel_partition(rel_id) == <<rel_id.rel_type, rel_id.source_type, rel_id.dest_type>>

\* the type appended to the template instead of substituted into it
node_fname_append(node_file_template, ntype) == node_file_template \o ntype

node_fname(node_file_template, ntype) == Replace(node_file_template, NODE_LABEL, ntype)

edge_label(rel_id) ==
    rel_id.rel_type \o Str(<<"_">>) \o rel_id.source_type \o Str(<<"_", "t", "o", "_">>)
        \o rel_id.dest_type

edge_fname(edge_file_template, rel_id) ==
    Replace(edge_file_template, EDGE_LABEL, edge_label(rel_id))

\* the header written through ofile.writerow, and so counted
write_header_counted(ws, k, row) ==
    [ws EXCEPT !.streams[k].written = Append(@, row), !.streams[k].rows = @ + 1]

\* ofile.writer.writerow(row): the header, not counted
write_header(ws, k, row) ==
    [ws EXCEPT !.streams[k].written = Append(@, row)]

\* ofile.writerow(row): counted in rows
writerow(ws, k, row) ==
    [ws EXCEPT !.streams[k].written = Append(@, row), !.streams[k].rows = @ + 1]

\* the loop body with the assertion on the id placed after the stream is opened
write_node_assert_after_open(ws, node, node_file_template, fault) ==
    LET ntype == get_node_type(node)
        nname == get_node_id(node)
        isnew == node_partition(node) \notin DOMAIN ws.output_files
        fname == node_fname(node_file_template, ntype)
        k == IF isnew THEN Len(ws.streams) + 1 ELSE ws.output_files[node_partition(node)]
        opened == IF isnew
                  THEN [ws EXCEPT !.streams = Append(@, OutputFile(fname)),
                                  !.output_files = @ @@ (node_partition(node) :> k)]
                  ELSE ws
        headed == IF isnew THEN write_header(opened, k, get_node_header_row(ntype))
                  ELSE opened
    IN  IF isnew /\ fault = "open" THEN [ws EXCEPT !.exc = FaultError(fault)]
        ELSE IF isnew /\ fault = "header" THEN [opened EXCEPT !.exc = FaultError(fault)]
        ELSE IF Contains(nname, Str(<<"\n">>))
        THEN [headed EXCEPT !.exc = [kind |-> "AssertionError"]]
        ELSE IF fault \in {"to_csv_row", "sanitize", "writerow"}
             THEN [headed EXCEPT !.exc = FaultError(fault)]
        ELSE writerow(headed, k, sanitize_row(to_csv_row(node)))

\* the body of the for loop of write_nodes for one node
write_node(ws, node, node_file_template, fault) ==
    LET ntype == get_node_type(node)
        nname == get_node_id(node)
        isnew == node_partition(node) \notin DOMAIN ws.output_files
        fname == node_fname(node_file_template, ntype)
        k == IF isnew THEN Len(ws.streams) + 1 ELSE ws.output_files[node_partition(node)]
        opened == IF isnew
                  THEN [ws EXCEPT !.streams = Append(@, OutputFile(fname)),
                                  !.output_files = @ @@ (node_partition(node) :> k)]
                  ELSE ws
        headed == IF isnew THEN write_header(opened, k, get_node_header_row(ntype))
                  ELSE opened
    IN  IF Contains(nname, Str(<<"\n">>))
        THEN [ws EXCEPT !.exc = [kind |-> "AssertionError"]]
        ELSE IF isnew /\ fault = "open" THEN [ws EXCEPT !.exc = FaultError(fault)]
        ELSE IF isnew /\ fault = "header" THEN [opened EXCEPT !.exc = FaultError(fault)]
        ELSE IF fault \in {"to_csv_row", "sanitize", "writerow"}
             THEN [headed EXCEPT !.exc = FaultError(fault)]
        ELSE writerow(headed, k, sanitize_row(to_csv_row(node)))

\* the body of the for loop of write_relationships for one relationship
write_rel(ws, rel, edge_file_template, fault) ==
    LET rel_id == get_rel_id(rel)
        key == rel_partition(rel_id)
        isnew == key \notin DOMAIN ws.output_files
        fname == edge_fname(edge_file_template, rel_id)
        k == IF isnew THEN Len(ws.streams) + 1 ELSE ws.output_files[key]
        opened == IF isnew
                  THEN [ws EXCEPT !.streams = Append(@, OutputFile(fname)),
                                  !.output_files = @ @@ (key :> k)]
                  ELSE ws
        headed == IF isnew
                  THEN write_header(opened, k,
                           get_rel_header_row(rel_id.rel_type, rel_id.source_type,
                                              rel_id.dest_type))
                  ELSE opened
    IN  IF isnew /\ fault = "open" THEN [ws EXCEPT !.exc = FaultError(fault)]
        ELSE IF isnew /\ fault = "header" THEN [opened EXCEPT !.exc = FaultError(fault)]
        ELSE IF fault = "writerow" THEN [headed EXCEPT !.exc = FaultError(fault)]
        ELSE writerow(headed, k, <<rel_id.source_id, rel_id.dest_id, rel_id.rel_type>>)

\* the close loop after the try block instead of in a finally clause
close_all_unless_raised(ws) ==
    LET mine == { ws.output_files[key] : key \in DOMAIN ws.output_files }
    IN  IF ws.exc # NoError THEN ws
        ELSE [ws EXCEPT !.streams = [k \in 1..Len(ws.streams) |->
                                        IF k \in mine
                                        THEN [ws.streams[k] EXCEPT !.closes = @ + 1]
                                        ELSE ws.streams[k]]]

\* finally: for ofile in output_files.values(): ofile.close()
close_all(ws) ==
    LET mine == { ws.output_files[key] : key \in DOMAIN ws.output_files }
    IN  [ws EXCEPT !.streams = [k \in 1..Len(ws.streams) |->
                                   IF k \in mine
                                   THEN [ws.streams[k] EXCEPT !.closes = @ + 1]
                                   ELSE ws.streams[k]]]

-----------------------------------------------------------------------------
(* build_import.py: run *)

\* os.getcwd()
Cwd == Str(<<"/", "w">>)

\* os.path.abspath(path) for a path without . and .. components
abspath(path) ==
    IF path # <<>> /\ path[1] = 47 THEN path ELSE Cwd \o <<47>> \o path

RECURSIVE rstrip_slash(_)
rstrip_slash(s) ==
    IF s # <<>> /\ s[Len(s)] = 47 THEN rstrip_slash(SubSeq(s, 1, Len(s) - 1)) ELSE s

\* os.path.dirname(path)
dirname(path) ==
    LET slashes == { i \in 1..Len(path) : path[i] = 47 }
        i == IF slashes = {} THEN 0 ELSE CHOOSE j \in slashes : \A l \in slashes : l <= j
        head == SubSeq(path, 1, i)
    IN  IF head # <<>> /\ (\E j \in 1..Len(head) : head[j] # 47)
        THEN rstrip_slash(head) ELSE head

\* os.path.exists(path) of a directory
exists(path) == path \in fs_dirs

\* list.sort(key=...): stable insertion by the key tuples
RECURSIVE insert_by_key(_, _)
insert_by_key(sorted, pair) ==
    IF sorted = <<>> THEN <<pair>>
    ELSE IF TupleLess(pair[1], sorted[1][1]) THEN <<pair>> \o sorted
    ELSE <<sorted[1]>> \o insert_by_key(Tail(sorted), pair)

RECURSIVE sort_pairs(_)
sort_pairs(pairs) ==
    IF pairs = <<>> THEN <<>>
    ELSE insert_by_key(sort_pairs(SubSeq(pairs, 1, Len(pairs) - 1)), pairs[Len(pairs)])

\* a sort key that leaves the node type out
node_sort_key_by_id(n) == <<get_node_id(n)>>

node_sort_key(n) == <<get_node_type(n), get_node_id(n)>>
rel_sort_key(r) == RelTuple(get_rel_id(r))

sort_nodes(l) ==
    LET sorted == sort_pairs([i \in 1..Len(l) |-> <<node_sort_key(l[i]), l[i]>>])
    IN  [i \in 1..Len(l) |-> sorted[i][2]]

sort_rels(l) ==
    LET sorted == sort_pairs([i \in 1..Len(l) |-> <<rel_sort_key(l[i]), l[i]>>])
    IN  [i \in 1..Len(l) |-> sorted[i][2]]

\* the argument values of the model
NodeTemplates == { Str(<<"o", "/", "n", "-">>) \o NODE_LABEL, Str(<<"o", "/", "n">>) }
EdgeTemplates == { Str(<<"e", "/", "e", "-">>) \o EDGE_LABEL, Str(<<"e", "/", "e">>) }
DirSets == SUBSET { Cwd \o Str(<<"/", "o">>), Cwd \o Str(<<"/", "e">>) }

\* in place of parsed_args when a writer is called on its own
Direct(fn) == [direct |-> fn]
IsDirect == "direct" \in DOMAIN parsed_args

\* run_check without the two parent-directory checks
run_check_no_dirs(args) ==
    IF ~Contains(args.output_node_files, NODE_LABEL)
    THEN [kind |-> "Exception", what |-> "--output-node-files does not contain NODE_LABEL"]
    ELSE IF ~Contains(args.output_edge_files, EDGE_LABEL)
    THEN [kind |-> "Exception", what |-> "--output-edge-files does not contain EDGE_LABEL"]
    ELSE NoError

\* the first check of run that fails, or NoError
run_check(args) ==
    IF ~Contains(args.output_node_files, NODE_LABEL)
    THEN [kind |-> "Exception", what |-> "--output-node-files does not contain NODE_LABEL"]
    ELSE IF ~Contains(args.output_edge_files, EDGE_LABEL)
    THEN [kind |-> "Exception", what |-> "--output-edge-files does not contain EDGE_LABEL"]
    ELSE IF ~exists(dirname(abspath(args.output_node_files)))
    THEN [kind |-> "Exception", what |-> "--output-node-files parent directory not found"]
    ELSE IF ~exists(dirname(abspath(args.output_edge_files)))
    THEN [kind |-> "Exception", what |-> "--output-edge-files parent directory not found"]
    ELSE NoError

-----------------------------------------------------------------------------
(* State machine *)

Mapped0 == [node_keys |-> <<>>, rel_ids |-> <<>>, n_nodes |-> 0, n_rels |-> 0, calls |-> 0]

\* the history after map_input returned out
RECURSIVE add_distinct(_, _)
add_distinct(seen, new) ==
    IF new = <<>> THEN seen
    ELSE add_distinct(IF \E i \in 1..Len(seen) : seen[i] = Head(new)
                      THEN seen ELSE Append(seen, Head(new)),
                      Tail(new))

note_mapped(h, out) ==
    [node_keys |-> add_distinct(h.node_keys,
                      [i \in 1..Len(out.new_nodes) |->
                          <<get_node_type(out.new_nodes[i]), get_node_id(out.new_nodes[i])>>]),
     rel_ids |-> add_distinct(h.rel_ids,
                      [i \in 1..Len(out.new_relationships) |->
                          get_rel_id(out.new_relationships[i])]),
     n_nodes |-> h.n_nodes + Len(out.new_nodes),
     n_rels |-> h.n_rels + Len(out.new_relationships),
     calls |-> h.calls + 1]

MapLocals ==
    [nodes |-> nodes, nodes_to_index |-> nodes_to_index,
     relationships |-> relationships, rels_to_index |-> rels_to_index,
     num_node_reductions |-> num_node_reductions,
     num_edge_reductions |-> num_edge_reductions, exc |-> NoError]

SetMapLocals(st) ==
    /\ nodes' = st.nodes
    /\ nodes_to_index' = st.nodes_to_index
    /\ relationships' = st.relationships
    /\ rels_to_index' = st.rels_to_index
    /\ num_node_reductions' = st.num_node_reductions
    /\ num_edge_reductions' = st.num_edge_reductions

mapVars == <<nodes, nodes_to_index, relationships, rels_to_index,
             num_node_reductions, num_edge_reductions>>
writeVars == <<template, wi, output_files, streams>>
mergeVars == <<merge_in, merge_out>>
ctlVars == <<argv, ci, host, trace>>
\* what no action of build_import changes
argVars == <<parsed_args, fs_dirs, ctlVars>>

\* nothing has been mapped, written or merged yet
NoMap ==
    /\ taken = 0
    /\ mapped = Mapped0
    /\ nodes_to_index = <<>>
    /\ rels_to_index = <<>>
    /\ num_node_reductions = 0
    /\ num_edge_reductions = 0

NoWrite ==
    /\ wi = 1
    /\ output_files = <<>>
    /\ streams = <<>>

\* neoctl is not running
NoCtl ==
    /\ argv = <<>>
    /\ ci = 1
    /\ host = <<>>
    /\ trace = <<>>

NoMerge ==
    /\ merge_in = <<>>
    /\ merge_out = <<>>

\* run(parsed_args, generator, map_reduce) is called
Init ==
    /\ pc = "run"
    /\ parsed_args \in [output_node_files : NodeTemplates,
                        output_edge_files : EdgeTemplates, sorted : BOOLEAN]
    /\ fs_dirs \in DirSets
    /\ err = NoError
    /\ nodes = <<>>
    /\ relationships = <<>>
    /\ template = <<>>
    /\ NoMap /\ NoWrite /\ NoCtl /\ NoMerge

\* run, lines 153-166: one of the configuration checks raises
RunReject ==
    /\ pc = "run"
    /\ run_check(parsed_args) # NoError
    /\ pc' = "error"
    /\ err' = run_check(parsed_args)
    /\ UNCHANGED <<argVars, taken, mapped, mapVars, writeVars, mergeVars>>

\* run, lines 153-169: the checks pass and map_and_reduce is entered
RunAccept ==
    /\ pc = "run"
    /\ run_check(parsed_args) = NoError
    /\ pc' = "map_and_reduce"
    /\ UNCHANGED <<err, argVars, taken, mapped, mapVars, writeVars, mergeVars>>

\* map_and_reduce: one record is taken and merged without an exception
MapRecord ==
    /\ pc = "map_and_reduce"
    /\ taken < MaxRecords
    /\ \E out \in MapOutputs :
          LET st == map_one(MapLocals, out)
          IN  /\ st.exc = NoError
              /\ SetMapLocals(st)
              /\ mapped' = note_mapped(mapped, out)
    /\ taken' = taken + 1
    /\ UNCHANGED <<pc, err, argVars, writeVars, mergeVars>>

\* MapRaise with the exception caught and the loop going on
MapRaise_swallowed ==
    /\ pc = "map_and_reduce"
    /\ taken < MaxRecords
    /\ \E out \in MapOutputs :
          LET st == map_one(MapLocals, out)
          IN  /\ st.exc # NoError
              /\ err' = st.exc
              /\ mapped' = note_mapped(mapped, out)
    /\ taken' = taken + 1
    /\ UNCHANGED <<pc, argVars, mapVars, writeVars, mergeVars>>

\* map_and_reduce: merging a record raises; the exception leaves run and the
\* locals of map_and_reduce are lost
MapRaise ==
    /\ pc = "map_and_reduce"
    /\ taken < MaxRecords
    /\ \E out \in MapOutputs :
          LET st == map_one(MapLocals, out)
          IN  /\ st.exc # NoError
              /\ err' = st.exc
              /\ mapped' = note_mapped(mapped, out)
    /\ SetMapLocals(MapLocals0)
    /\ taken' = taken + 1
    /\ pc' = "error"
    /\ UNCHANGED <<argVars, writeVars, mergeVars>>

\* map_and_reduce returns (the generator is exhausted); run sorts if asked
\* and calls write_nodes
MapReturn ==
    /\ pc = "map_and_reduce"
    /\ nodes' = IF parsed_args.sorted THEN sort_nodes(nodes) ELSE nodes
    /\ relationships' = IF parsed_args.sorted THEN sort_rels(relationships)
                        ELSE relationships
    /\ pc' = "write_nodes"
    /\ template' = abspath(parsed_args.output_node_files)
    /\ wi' = 1
    /\ output_files' = <<>>
    /\ UNCHANGED <<err, argVars, taken, mapped, nodes_to_index, rels_to_index,
                   num_node_reductions, num_edge_reductions, streams, mergeVars>>

\* write_nodes: one node of the list is written
WriteNode ==
    /\ pc = "write_nodes"
    /\ wi <= Len(nodes)
    /\ \E fault \in Faults :
          LET ws == write_node(WriterState(output_files, streams, NoError),
                               nodes[wi], template, fault)
          IN  /\ ws.exc = NoError
              /\ output_files' = ws.output_files
              /\ streams' = ws.streams
    /\ wi' = wi + 1
    /\ UNCHANGED <<pc, err, argVars, taken, mapped, mapVars, template, mergeVars>>

\* write_nodes: an exception in the loop; finally closes, the exception leaves
WriteNodeRaise ==
    /\ pc = "write_nodes"
    /\ wi <= Len(nodes)
    /\ \E fault \in Faults :
          LET ws == write_node(WriterState(output_files, streams, NoError),
                               nodes[wi], template, fault)
          IN  /\ ws.exc # NoError
              /\ output_files' = ws.output_files
              /\ streams' = close_all(ws).streams
              /\ err' = ws.exc
    /\ pc' = "error"
    /\ UNCHANGED <<argVars, taken, mapped, mapVars, template, wi, mergeVars>>

\* WriteNodesReturn with the node streams left open
WriteNodesReturn_unclosed ==
    /\ pc = "write_nodes"
    /\ wi > Len(nodes)
    /\ streams' = streams
    /\ IF IsDirect
       THEN /\ pc' = "done"
            /\ UNCHANGED <<template, wi, output_files>>
       ELSE /\ pc' = "write_relationships"
            /\ template' = abspath(parsed_args.output_edge_files)
            /\ wi' = 1
            /\ output_files' = <<>>
    /\ UNCHANGED <<err, argVars, taken, mapped, mapVars, mergeVars>>

\* write_nodes: the loop is over; finally closes; run calls write_relationships
WriteNodesReturn ==
    /\ pc = "write_nodes"
    /\ wi > Len(nodes)
    /\ streams' = close_all(WriterState(output_files, streams, NoError)).streams
    /\ IF IsDirect
       THEN /\ pc' = "done"
            /\ UNCHANGED <<template, wi, output_files>>
       ELSE /\ pc' = "write_relationships"
            /\ template' = abspath(parsed_args.output_edge_files)
            /\ wi' = 1
            /\ output_files' = <<>>
    /\ UNCHANGED <<err, argVars, taken, mapped, mapVars, mergeVars>>

\* write_relationships: one relationship of the list is written
WriteRel ==
    /\ pc = "write_relationships"
    /\ wi <= Len(relationships)
    /\ \E fault \in Faults :
          LET ws == write_rel(WriterState(output_files, streams, NoError),
                              relationships[wi], template, fault)
          IN  /\ ws.exc = NoError
              /\ output_files' = ws.output_files
              /\ streams' = ws.streams
    /\ wi' = wi + 1
    /\ UNCHANGED <<pc, err, argVars, taken, mapped, mapVars, template, mergeVars>>

\* write_relationships: an exception in the loop; finally closes
WriteRelRaise ==
    /\ pc = "write_relationships"
    /\ wi <= Len(relationships)
    /\ \E fault \in Faults :
          LET ws == write_rel(WriterState(output_files, streams, NoError),
                              relationships[wi], template, fault)
          IN  /\ ws.exc # NoError
              /\ output_files' = ws.output_files
              /\ streams' = close_all(ws).streams
              /\ err' = ws.exc
    /\ pc' = "error"
    /\ UNCHANGED <<argVars, taken, mapped, mapVars, template, wi, mergeVars>>

\* write_relationships: the loop is over; finally closes; run returns 0
WriteRelsReturn ==
    /\ pc = "write_relationships"
    /\ wi > Len(relationships)
    /\ streams' = close_all(WriterState(output_files, streams, NoError)).streams
    /\ pc' = "done"
    /\ UNCHANGED <<err, argVars, taken, mapped, mapVars, template, wi,
                   output_files, mergeVars>>

Next ==
    \/ RunReject
    \/ RunAccept
    \/ MapRecord
    \/ MapRaise
    \/ MapReturn
    \/ WriteNode
    \/ WriteNodeRaise
    \/ WriteNodesReturn
    \/ WriteRel
    \/ WriteRelRaise
    \/ WriteRelsReturn

Spec == Init /\ [][Next]_vars

-----------------------------------------------------------------------------
(* The writers called on their own, with any list and any template *)

BoundedSeq(S, n) == UNION { [1..k -> S] : k \in 0..n }

\* the nodes handed to write_nodes: plain ids, an id with a newline, an id
\* with a space and a tab, an integer cell and a string cell with a tab, a
\* newline and a control character
WriteNodeSet ==
    { MkNode(ty, p[1], p[2], None) :
        ty \in NodeTypes,
        p \in { <<Str(<<"x">>), PyInt(5)>>, <<Str(<<"y">>), PyStr(<<97, 9, 10, 1>>)>>,
                <<Str(<<"x", "\n">>), PyInt(5)>>,
                <<Str(<<"x", " ", "\t", "y">>), PyInt(5)>> } }

\* the relationships handed to write_relationships: the SimpleRelationships
\* of RelIds, one whose source id holds a space and a tab, and one with a
\* property
WriteRelSet ==
    RelIds \cup
    { MkRelId(Str(<<"m">>), Str(<<"x", " ", "\t", "y">>), Str(<<"r">>), Str(<<"m">>), Str(<<"y">>)),
      MkRel(MkRelId(Str(<<"m">>), Str(<<"y">>), Str(<<"r">>), Str(<<"m">>), Str(<<"y">>)),
            PyInt(5)) }

InitWrite ==
    /\ err = NoError
    /\ fs_dirs = {}
    /\ NoMap /\ NoWrite /\ NoCtl /\ NoMerge
    /\ \/ /\ pc = "write_nodes"
          /\ parsed_args = Direct("write_nodes")
          /\ nodes \in BoundedSeq(WriteNodeSet, MaxNodes)
          /\ relationships = <<>>
          /\ template \in { abspath(t) : t \in NodeTemplates }
       \/ /\ pc = "write_relationships"
          /\ parsed_args = Direct("write_relationships")
          /\ nodes = <<>>
          /\ relationships \in BoundedSeq(WriteRelSet, MaxRels)
          /\ template \in { abspath(t) : t \in EdgeTemplates }

NextWrite ==
    \/ WriteNode
    \/ WriteNodeRaise
    \/ WriteNodesReturn
    \/ WriteRel
    \/ WriteRelRaise
    \/ WriteRelsReturn

SpecWrite == InitWrite /\ [][NextWrite]_vars

-----------------------------------------------------------------------------
(* Node.reduce and Node._merge_values called on their own *)

MergeNodes == { MkNode(ty, Str(<<"x">>), x, y) : ty \in NodeTypes, x \in AttrVals, y \in AttrVals }

InitMerge ==
    /\ pc = "reduce"
    /\ parsed_args = Direct("reduce")
    /\ fs_dirs = {}
    /\ err = NoError
    /\ nodes = <<>>
    /\ relationships = <<>>
    /\ template = <<>>
    /\ NoMap /\ NoWrite /\ NoCtl
    /\ merge_in \in MergeNodes \X MergeNodes
    /\ merge_out = <<>>

\* a.reduce(b), b.reduce(a), a.reduce(a) and a._merge_values(b, attr)
Reduce ==
    /\ pc = "reduce"
    /\ LET a == merge_in[1]
           b == merge_in[2]
       IN  merge_out' = [ab |-> reduce(a, b), ba |-> reduce(b, a), aa |-> reduce(a, a),
                         values |-> [attr \in Attrs |-> _merge_values(a, b, attr)]]
    /\ pc' = "reduced"
    /\ UNCHANGED <<err, argVars, taken, mapped, mapVars, writeVars, merge_in>>

NextMerge == Reduce

SpecMerge == InitMerge /\ [][NextMerge]_vars

-----------------------------------------------------------------------------
(* SimpleRelationship.reduce called on its own, and map_and_reduce on the pair *)

\* every SimpleRelationship over the types and ids of the model
AllRelIds ==
    { MkRelId(st, sid, rt, dt, did) :
        st \in NodeTypes, sid \in NodeIds, rt \in {Str(<<"r">>), Str(<<"r", "_", "n">>)},
        dt \in NodeTypes, did \in NodeIds }

InitRelMerge ==
    /\ pc = "rel_reduce"
    /\ parsed_args = Direct("rel_reduce")
    /\ fs_dirs = {}
    /\ err = NoError
    /\ nodes = <<>>
    /\ relationships = <<>>
    /\ template = <<>>
    /\ NoMap /\ NoWrite /\ NoCtl
    /\ merge_in \in AllRelIds \X AllRelIds
    /\ merge_out = <<>>

\* a.reduce(b), and the loop body of map_and_reduce on a record whose
\* map_input result is ([], [a, b])
RelReduce ==
    /\ pc = "rel_reduce"
    /\ LET a == merge_in[1]
           b == merge_in[2]
       IN  merge_out' = [ab |-> rel_reduce(a, b),
                         mapped |-> map_one(MapLocals0, [new_nodes |-> <<>>,
                                                         new_relationships |-> <<a, b>>])]
    /\ pc' = "rel_reduced"
    /\ UNCHANGED <<err, argVars, taken, mapped, mapVars, writeVars, merge_in>>

NextRelMerge == RelReduce

SpecRelMerge == InitRelMerge /\ [][NextRelMerge]_vars

-----------------------------------------------------------------------------
(* The cell sanitization of write_nodes called on single cells *)

\* a letter, the separator, a space, a tab, the four line characters, two
\* control characters and two characters beyond ASCII; the elements of a list
\* cell are made of the separator, the tab and the newline
TextChars == {97, 59, 32, 9, 10, 13, 11, 12, 1, 127, 183, 233}
ElemChars == {59, 9, 10}

\* the cells a row can hold: strings, lists of strings, booleans, integers
Cells ==
    { PyStr(s) : s \in BoundedSeq(TextChars, MaxTextLen) }
    \cup { PyList(l) : l \in BoundedSeq(BoundedSeq(ElemChars, MaxElemLen), MaxList) }
    \cup { PyBool(TRUE), PyBool(FALSE), PyInt(5), PyInt(-12) }

InitText ==
    /\ pc = "sanitize"
    /\ parsed_args = Direct("sanitize")
    /\ fs_dirs = {}
    /\ err = NoError
    /\ nodes = <<>>
    /\ relationships = <<>>
    /\ template = <<>>
    /\ NoMap /\ NoWrite /\ NoCtl
    /\ merge_in \in Cells
    /\ merge_out = <<>>

\* one pass of the loop on the cells of a row
Sanitize ==
    /\ pc = "sanitize"
    /\ merge_out' = sanitize_cell(merge_in)
    /\ pc' = "sanitized"
    /\ UNCHANGED <<err, argVars, taken, mapped, mapVars, writeVars, merge_in>>

NextText == Sanitize

SpecText == InitText /\ [][NextText]_vars

-----------------------------------------------------------------------------
(* neoctl.py: the commands on a Neo4j instance in docker *)

Commands == {"create", "start", "stop", "destroy", "status"}

\* the words a command list is made of: the commands and an unknown word
CommandWords == Commands \cup {"bogus"}

\* the directories get_dirs names under neo4j_root (conf is only mounted)
Dirs == {"data", "logs", "cid-files"}

\* what docker inspect finds for the container id of the cid file: a running
\* container, a dead one, none ("gone", also when there is no cid file), an
\* output that is neither true nor false, or an error of the invocation
ContainerStates == {"running", "exited", "gone", "odd", "fail"}

\* the states of the machine neoctl runs on; the cid file lives in cid-files,
\* the import files in the import directory, the directories under the root
Hosts ==
    { h \in [root : BOOLEAN, dirs : {{}, {"data", "logs"}, {"cid-files"}, Dirs},
             cid_file : {"absent", "", "c1"}, container : ContainerStates,
             import_directory : BOOLEAN, node_files : BOOLEAN] :
        /\ h.dirs # {} => h.root
        /\ h.cid_file # "absent" => "cid-files" \in h.dirs
        /\ h.container # "gone" => h.cid_file = "c1"
        /\ h.node_files => h.import_directory }

Exception(what) == [kind |-> "Exception", what |-> what]

\* parser.error(message): argparse prints the message and exits with status 2
ParserError(what) == [kind |-> "SystemExit", what |-> what]

\* get_cid(cid_dir): the stripped content of neo4j.cid, None when the file is
\* missing or empty
get_cid(h) == IF h.cid_file \in {"absent", ""} THEN None ELSE PyStr(h.cid_file)

\* the docker invocation neo4j_running makes
inspect(h) == IF get_cid(h) = None THEN <<>> ELSE <<"docker inspect">>

\* neo4j_running answering False whatever docker says
neo4j_running_never(h) == Returned(FALSE)

\* neo4j_running(cid_dir)
neo4j_running(h) ==
    IF get_cid(h) = None THEN Returned(FALSE)
    ELSE IF h.container = "running" THEN Returned(TRUE)
    ELSE IF h.container = "exited" THEN Returned(FALSE)
    ELSE IF h.container = "odd"
    THEN Raised(Exception("Unexpected output from docker inspect"))
    ELSE IF h.container = "gone" THEN Returned(FALSE)
    ELSE Raised(Exception("Error invoking docker inspect"))

\* the state a command works on and the exception it ends with
CtlState(h, tr, exc) == [host |-> h, trace |-> tr, exc |-> exc]

\* the loop of create on [cid_dir, data, log]: rmtree if there, makedirs
RECURSIVE recreate(_, _)
recreate(existing, ds) ==
    IF ds = <<>> THEN <<>>
    ELSE (IF Head(ds) \in existing THEN <<"rmtree " \o Head(ds)>> ELSE <<>>)
         \o <<"makedirs " \o Head(ds)>> \o recreate(existing, Tail(ds))

\* the loop of destroy on (data, log, cid_dir): rmtree if there
RECURSIVE remove_dirs(_, _)
remove_dirs(existing, ds) ==
    IF ds = <<>> THEN <<>>
    ELSE (IF Head(ds) \in existing THEN <<"rmtree " \o Head(ds)>> ELSE <<>>)
         \o remove_dirs(existing, Tail(ds))

\* create(args): the two guards, the directories made anew, then line 119,
\* which reads the undefined name ags before docker is invoked
create(st) ==
    LET h == st.host
        r == neo4j_running(h)
        tr == st.trace \o inspect(h)
    IN  IF ~r.ok THEN CtlState(h, tr, r.exc)
        ELSE IF r.val
        THEN CtlState(h, tr, Exception("Neo4j is running, destroy it first before attempting a create"))
        ELSE IF ~h.node_files
        THEN CtlState(h, tr, Exception("No node import files of the form nodes-*.csv found"))
        ELSE CtlState([h EXCEPT !.root = TRUE, !.dirs = Dirs, !.cid_file = "absent",
                                !.container = "gone"],
                      tr \o recreate(h.dirs, <<"cid-files", "data", "logs">>),
                      [kind |-> "NameError"])

\* start(args); docker_ok is whether the docker run succeeds, which it cannot
\* when the directory of the cid file is missing
start(st, docker_ok) ==
    LET h == st.host
        r == neo4j_running(h)
        tr == st.trace \o inspect(h)
        removed == IF h.cid_file # "absent" THEN <<"remove neo4j.cid">> ELSE <<>>
        tr2 == tr \o removed \o <<"docker run -d">>
    IN  IF ~r.ok THEN CtlState(h, tr, r.exc)
        ELSE IF r.val THEN CtlState(h, tr, Exception("Neo4j is already running"))
        ELSE IF docker_ok /\ "cid-files" \in h.dirs
        THEN CtlState([h EXCEPT !.cid_file = "c1", !.container = "running"], tr2, NoError)
        ELSE CtlState([h EXCEPT !.cid_file = "absent", !.container = "gone"], tr2,
                      Exception("Docker failed with command"))

\* stop(args)
stop(st, docker_ok) ==
    LET h == st.host
        r == neo4j_running(h)
        tr == st.trace \o inspect(h)
    IN  IF ~r.ok THEN CtlState(h, tr, r.exc)
        ELSE IF ~r.val THEN CtlState(h, tr, NoError)
        ELSE IF docker_ok
        THEN CtlState([h EXCEPT !.container = "gone"], tr \o <<"docker stop">>, NoError)
        ELSE CtlState(h, tr \o <<"docker stop">>, Exception("Docker failed with command"))

\* destroy(args)
destroy(st, docker_ok) ==
    LET stopped == stop(st, docker_ok)
        h == stopped.host
    IN  IF stopped.exc # NoError THEN stopped
        ELSE CtlState([h EXCEPT !.dirs = {}, !.cid_file = "absent",
                                !.container = "gone"],
                      stopped.trace \o remove_dirs(h.dirs, <<"data", "logs", "cid-files">>),
                      NoError)

\* status(args)
status(st) ==
    LET h == st.host
        r == neo4j_running(h)
    IN  IF ~h.root THEN st
        ELSE CtlState(h, st.trace \o inspect(h), IF r.ok THEN NoError ELSE r.exc)

\* the check of one command of the list (main, lines 211-226)
check_command(command, a, h) ==
    IF command = "create"
    THEN IF ~h.import_directory THEN ParserError("Import directory does not exist")
         ELSE IF a.password = None
         THEN ParserError("Need to specify password for create command")
         ELSE NoError
    ELSE IF command = "start"
    THEN IF a.password = None
         THEN ParserError("Need to specify password for start command")
         ELSE NoError
    ELSE IF command \in {"stop", "destroy", "status"} THEN NoError
    ELSE ParserError("Unknown command")

\* a check loop that looks at the first command only
main_check_first_only(a, h, i) ==
    IF i > 1 THEN NoError ELSE check_command(a.command[i], a, h)

\* the first loop of main from command i on: the first error, or NoError
RECURSIVE main_check(_, _, _)
main_check(a, h, i) ==
    IF i > Len(a.command) THEN NoError
    ELSE IF check_command(a.command[i], a, h) # NoError
    THEN check_command(a.command[i], a, h)
    ELSE main_check(a, h, i + 1)

\* main(argv) is called
InitCtl ==
    /\ pc = "main"
    /\ parsed_args = Direct("neoctl")
    /\ fs_dirs = {}
    /\ err = NoError
    /\ nodes = <<>>
    /\ relationships = <<>>
    /\ template = <<>>
    /\ NoMap /\ NoWrite /\ NoMerge
    /\ argv \in [command : BoundedSeq(CommandWords, MaxCommands) \ {<<>>},
                 password : {None, PyStr(<<112>>)}]
    /\ ci = 1
    /\ host \in Hosts
    /\ trace = <<>>

buildVars == <<parsed_args, fs_dirs, taken, mapped, mapVars, writeVars, mergeVars>>

\* main, lines 210-226: a command of the list fails its check
MainReject ==
    /\ pc = "main"
    /\ main_check(argv, host, 1) # NoError
    /\ err' = main_check(argv, host, 1)
    /\ pc' = "error"
    /\ UNCHANGED <<buildVars, ctlVars>>

\* main, lines 210-229: every command passed; the second loop is entered
MainAccept ==
    /\ pc = "main"
    /\ main_check(argv, host, 1) = NoError
    /\ pc' = "commands"
    /\ UNCHANGED <<err, buildVars, ctlVars>>

\* the outcome st of the command at ci: the next command, or the exception
Dispatched(st) ==
    /\ host' = st.host
    /\ trace' = st.trace
    /\ IF st.exc = NoError
       THEN /\ ci' = ci + 1
            /\ UNCHANGED <<pc, err>>
       ELSE /\ pc' = "error"
            /\ err' = st.exc
            /\ UNCHANGED ci
    /\ UNCHANGED <<buildVars, argv>>

AtCommand(command) ==
    /\ pc = "commands"
    /\ ci <= Len(argv.command)
    /\ argv.command[ci] = command

Create ==
    /\ AtCommand("create")
    /\ Dispatched(create(CtlState(host, trace, NoError)))

Start ==
    /\ AtCommand("start")
    /\ \E docker_ok \in BOOLEAN :
          Dispatched(start(CtlState(host, trace, NoError), docker_ok))

Stop ==
    /\ AtCommand("stop")
    /\ \E docker_ok \in BOOLEAN :
          Dispatched(stop(CtlState(host, trace, NoError), docker_ok))

Destroy ==
    /\ AtCommand("destroy")
    /\ \E docker_ok \in BOOLEAN :
          Dispatched(destroy(CtlState(host, trace, NoError), docker_ok))

Status ==
    /\ AtCommand("status")
    /\ Dispatched(status(CtlState(host, trace, NoError)))

\* main, line 246: the list is done
MainReturn ==
    /\ pc = "commands"
    /\ ci > Len(argv.command)
    /\ pc' = "done"
    /\ UNCHANGED <<err, buildVars, ctlVars>>

NextCtl ==
    \/ MainReject
    \/ MainAccept
    \/ Create
    \/ Start
    \/ Stop
    \/ Destroy
    \/ Status
    \/ MainReturn

SpecCtl == InitCtl /\ [][NextCtl]_vars

-----------------------------------------------------------------------------
(* Properties *)

SeqSet(s) == { s[i] : i \in 1..Len(s) }

NodeIdentities(l) == { <<get_node_type(l[i]), get_node_id(l[i])>> : i \in 1..Len(l) }

\* map_and_reduce has returned to run
MapReturned == ~IsDirect /\ pc \in {"write_nodes", "write_relationships", "done"}

\* an exception left map_and_reduce
MapAborted == ~IsDirect /\ pc = "error" /\ run_check(parsed_args) = NoError /\ template = <<>>

\* C1: the node list map_and_reduce returns holds exactly one node per
\* distinct (node_type, node_id) pair among the candidates map_input returned;
\* equal ids of different types stay two nodes.
C1_OneNodePerTypeAndId ==
    MapReturned =>
        /\ Len(nodes) = Len(mapped.node_keys)
        /\ NodeIdentities(nodes) = SeqSet(mapped.node_keys)

\* C2: map_and_reduce completes when RelIds repeat (only a MergeError of a
\* node merge ends it early) and returns exactly one relationship per distinct
\* RelId among the candidates.
C2_OneRelPerRelId ==
    /\ MapAborted => err.kind = "MergeError"
    /\ MapReturned =>
          /\ Len(relationships) = Len(mapped.rel_ids)
          /\ SeqSet(relationships) = SeqSet(mapped.rel_ids)

\* C3: no output stream is opened unless every merged node passed validate:
\* a node whose required attribute is None or empty aborts run before that.
C3_ValidatedBeforeWrite ==
    (~IsDirect /\ streams # <<>>) => \A i \in 1..Len(nodes) : validate(nodes[i]).ok

\* C4: a MergeError raised by a reduce call in map_and_reduce ends run at
\* once: no list is returned, no stream was opened, and nothing happens after
\* it (no later record is mapped, nothing is written).
C4_MergeErrorAborts ==
    err.kind = "MergeError" =>
        /\ pc = "error"
        /\ nodes = <<>> /\ relationships = <<>>
        /\ streams = <<>> /\ output_files = <<>>
        /\ mapped.calls = taken
        /\ ~ENABLED Next

C4_Witness ==
    /\ err.kind = "MergeError"
    /\ pc = "error"
    /\ taken = 2
    /\ err.self_val = PyInt(5) /\ err.other_val = PyInt(7)

\* C5: _merge_values returns the common value when the two values are equal,
\* the present one when exactly one is None, raises MergeError (with the
\* node type, the attribute and both values) exactly when both are present
\* and differ, and never returns a value that is neither of the two.
C5_MergeValues ==
    pc = "reduced" =>
        \A attr \in Attrs :
            LET s == merge_in[1].attrs[attr]
                o == merge_in[2].attrs[attr]
                r == merge_out.values[attr]
            IN  /\ (s = o => r = Returned(s))
                /\ (s # None /\ o = None => r = Returned(s))
                /\ (s = None /\ o # None => r = Returned(o))
                /\ (~r.ok <=> (s # None /\ o # None /\ s # o))
                /\ (~r.ok => r.exc = MergeError(get_node_type(merge_in[1]), attr, s, o))
                /\ (r.ok => r.val \in {s, o})

C5_Witness ==
    /\ pc = "reduced"
    /\ merge_out.values["x"] = Returned(PyInt(5))
    /\ merge_in[1].attrs["x"] = PyInt(5) /\ merge_in[2].attrs["x"] = None
    /\ ~merge_out.values["y"].ok
    /\ merge_in[1].attrs["y"] = PyStr(<<>>)

SameIdentity(a, b) ==
    get_node_type(a) = get_node_type(b) /\ get_node_id(a) = get_node_id(b)

\* C6: for a reduce that merges every attribute with _merge_values, a node
\* merged with itself is an equal node, and for two nodes of one identity the
\* merge raises in one order exactly when it raises in the other and
\* otherwise gives equal attribute values in both orders.
C6_ReduceIdempotentCommutative ==
    pc = "reduced" =>
        LET a == merge_in[1]
            b == merge_in[2]
        IN  /\ merge_out.aa = Returned(a)
            /\ SameIdentity(a, b) =>
                  /\ merge_out.ab.ok <=> merge_out.ba.ok
                  /\ merge_out.ab.ok => merge_out.ab.val.attrs = merge_out.ba.val.attrs

C6_Witness ==
    /\ pc = "reduced"
    /\ SameIdentity(merge_in[1], merge_in[2])
    /\ merge_out.ab.ok
    /\ merge_out.ab.val # merge_in[1]
    /\ merge_out.ab.val # merge_in[2]
    /\ merge_out.ba.val = merge_out.ab.val

NodeTypesOf(l) == { get_node_type(l[i]) : i \in 1..Len(l) }

\* the rows write_nodes has to write for the nodes of type ty, in list order
RECURSIVE RowsOfType(_, _)
RowsOfType(l, ty) ==
    IF l = <<>> THEN <<>>
    ELSE (IF get_node_type(Head(l)) = ty THEN <<sanitize_row(to_csv_row(Head(l)))>>
          ELSE <<>>) \o RowsOfType(Tail(l), ty)

WriteNodesDone == parsed_args = Direct("write_nodes") /\ pc = "done"

\* C7: after write_nodes completes, the streams it opened are one per node
\* type of the list and none else, and each holds the header row of its type
\* followed by the rows of the nodes of that type, in list order.
C7_OneStreamPerNodeType ==
    WriteNodesDone =>
        /\ DOMAIN output_files = NodeTypesOf(nodes)
        /\ Len(streams) = Cardinality(NodeTypesOf(nodes))
        /\ \A ty \in DOMAIN output_files :
              streams[output_files[ty]].written =
                  <<get_node_header_row(ty)>> \o RowsOfType(nodes, ty)

C7_Witness ==
    /\ WriteNodesDone
    /\ Len(nodes) = 3
    /\ get_node_type(nodes[1]) = get_node_type(nodes[3])
    /\ get_node_type(nodes[1]) # get_node_type(nodes[2])
    /\ Len(streams[output_files[get_node_type(nodes[1])]].written) = 3

\* C8: relationships of different (rel_type, source_type, dest_type) triples
\* are written to different files: no two triples resolve to one path through
\* the label rel_type_source_type_to_dest_type.
C8_TriplesHaveOwnFiles ==
    (parsed_args = Direct("write_relationships") /\ Contains(template, EDGE_LABEL)) =>
        \A k1 \in DOMAIN output_files : \A k2 \in DOMAIN output_files :
            k1 # k2 => streams[output_files[k1]].fname # streams[output_files[k2]].fname

\* C9: on every exit of write_nodes and of write_relationships, by return or
\* by an exception, every stream the call opened has been closed exactly
\* once; no stream is ever closed twice.
C9_StreamsClosedOnce ==
    /\ \A k \in 1..Len(streams) : streams[k].closes <= 1
    /\ pc \in {"done", "error"} => \A k \in 1..Len(streams) : streams[k].closes = 1

C9_Witness ==
    /\ pc = "error"
    /\ err.kind = "CollaboratorError"
    /\ Len(streams) = 2
    /\ streams[2].written = <<>>
    /\ \A k \in 1..Len(streams) : streams[k].closes = 1

DirectNoLabel == parsed_args = Direct("write_nodes") /\ ~Contains(template, NODE_LABEL)

\* C10 as claimed: write_nodes with a template without NODE_LABEL fails with
\* a configuration error and opens no stream.
C10_WriteNodesRejectsTemplate ==
    DirectNoLabel =>
        /\ streams = <<>>
        /\ pc \in {"done", "error"} => err.kind = "Exception"

\* C10 amended: write_nodes does not check its template. With a template
\* without NODE_LABEL it raises no configuration error (only the newline
\* assertion or a collaborator ends it early) and opens one stream per node
\* type it meets, each on the unsubstituted template path.
C10_WriteNodesDoesNotCheck ==
    DirectNoLabel =>
        /\ err.kind \in {"none", "AssertionError", "OSError", "CollaboratorError"}
        /\ \A k \in 1..Len(streams) : streams[k].fname = template
        /\ pc = "done" => Len(streams) = Cardinality(NodeTypesOf(nodes))

C10_Witness ==
    /\ DirectNoLabel
    /\ pc = "done"
    /\ Len(streams) = 2
    /\ streams[1].fname = streams[2].fname

\* a node template without NODE_LABEL, an edge template without EDGE_LABEL, or
\* a template whose parent directory is not there
BadConfiguration ==
    /\ ~IsDirect
    /\ \/ ~Contains(parsed_args.output_node_files, NODE_LABEL)
       \/ ~Contains(parsed_args.output_edge_files, EDGE_LABEL)
       \/ dirname(abspath(parsed_args.output_node_files)) \notin fs_dirs
       \/ dirname(abspath(parsed_args.output_edge_files)) \notin fs_dirs

\* C11: with a bad configuration run raises before any processing: no record
\* is taken from the generator, map_input is never called, no output stream
\* is opened, and the only step run takes is raising the Exception.
C11_ConfigurationCheckedFirst ==
    BadConfiguration =>
        /\ pc \in {"run", "error"}
        /\ taken = 0 /\ mapped = Mapped0
        /\ nodes = <<>> /\ relationships = <<>>
        /\ streams = <<>> /\ output_files = <<>>
        /\ pc = "error" => (err.kind = "Exception" /\ ~ENABLED Next)

C11_Witness ==
    /\ pc = "error"
    /\ Contains(parsed_args.output_node_files, NODE_LABEL)
    /\ Contains(parsed_args.output_edge_files, EDGE_LABEL)
    /\ dirname(abspath(parsed_args.output_node_files)) \in fs_dirs
    /\ dirname(abspath(parsed_args.output_edge_files)) \notin fs_dirs
    /\ err.what = "--output-edge-files parent directory not found"
    /\ taken = 0 /\ streams = <<>>

\* the (node_type, node_id) pairs of a list, in list order
NodeIdentitySeq(l) == [i \in 1..Len(l) |-> <<get_node_type(l[i]), get_node_id(l[i])>>]

\* the lists of map_and_reduce as they are handed on without the sort option
Unsorted == ~IsDirect /\ (pc = "map_and_reduce" \/ (MapReturned /\ ~parsed_args.sorted))

\* C12: without the sort option the node list and the relationship list are
\* ordered by the first occurrence of each identity in the record stream: the
\* entities of the list are those of the identities produced so far, in the
\* order the identities were first produced, whatever was merged later.
C12_FirstOccurrenceOrder ==
    Unsorted =>
        /\ NodeIdentitySeq(nodes) = mapped.node_keys
        /\ relationships = mapped.rel_ids

\* the node ids of the candidates so far, in first-seen order
FirstSeenIds ==
    add_distinct(<<>>, [i \in 1..Len(mapped.node_keys) |-> mapped.node_keys[i][2]])

\* the rows write_relationships writes for the relationships of one
\* (rel_type, source_type, dest_type) key, in list order
RECURSIVE RelRowsOfKey(_, _)
RelRowsOfKey(l, key) ==
    IF l = <<>> THEN <<>>
    ELSE (IF rel_partition(get_rel_id(Head(l))) = key
          THEN <<<<get_rel_id(Head(l)).source_id, get_rel_id(Head(l)).dest_id,
                   get_rel_id(Head(l)).rel_type>>>>
          ELSE <<>>) \o RelRowsOfKey(Tail(l), key)

\* every stream of the running writer holds its header and then the rows of
\* the entities written so far, in list order
WrittenInListOrder ==
    /\ pc = "write_nodes" =>
          \A ty \in DOMAIN output_files :
              streams[output_files[ty]].written =
                  <<get_node_header_row(ty)>> \o RowsOfType(SubSeq(nodes, 1, wi - 1), ty)
    /\ pc = "write_relationships" =>
          \A key \in DOMAIN output_files :
              streams[output_files[key]].written =
                  <<get_rel_header_row(key[1], key[2], key[3])>>
                      \o RelRowsOfKey(SubSeq(relationships, 1, wi - 1), key)

\* C13: with the sort option the lists run writes are in non-decreasing
\* (node_type, node_id) order and in non-decreasing RelId tuple order (and
\* hold the merged entities, so the output depends on the input alone);
\* without it the lists are written in the order map_and_reduce left them;
\* in both cases the rows are written in list order.
C13_SortedOutput ==
    MapReturned =>
        /\ WrittenInListOrder
        /\ [i \in 1..Len(nodes) |-> get_node_id(nodes[i])] \in
              { p \in [1..Len(FirstSeenIds) -> SeqSet(FirstSeenIds)] :
                    SeqSet(p) = SeqSet(FirstSeenIds) }
        /\ SeqSet(relationships) = SeqSet(mapped.rel_ids)
        /\ Len(relationships) = Len(mapped.rel_ids)
        /\ parsed_args.sorted =>
              /\ \A i \in 1..Len(nodes) : \A j \in 1..Len(nodes) : i < j =>
                    ~TupleLess(<<get_node_type(nodes[j]), get_node_id(nodes[j])>>,
                               <<get_node_type(nodes[i]), get_node_id(nodes[i])>>)
              /\ \A i \in 1..Len(relationships) : \A j \in 1..Len(relationships) : i < j =>
                    ~TupleLess(RelTuple(relationships[j]), RelTuple(relationships[i]))
        /\ ~parsed_args.sorted =>
              /\ [i \in 1..Len(nodes) |-> get_node_id(nodes[i])] = FirstSeenIds
              /\ relationships = mapped.rel_ids

C13_Witness ==
    /\ MapReturned /\ parsed_args.sorted
    /\ pc = "done"
    /\ Len(nodes) = 2 /\ Len(relationships) = 2
    /\ [i \in 1..Len(nodes) |-> get_node_id(nodes[i])] # FirstSeenIds
    /\ get_node_id(nodes[2]) = Str(<<"x">>)
    /\ relationships # mapped.rel_ids
    /\ Len(streams) >= 3

\* the rows the relationships of one key contribute through to_csv_row, in
\* list order
RECURSIVE CsvRowsOfKey(_, _)
CsvRowsOfKey(l, key) ==
    IF l = <<>> THEN <<>>
    ELSE (IF rel_partition(get_rel_id(Head(l))) = key THEN <<rel_to_csv_row(Head(l))>>
          ELSE <<>>) \o CsvRowsOfKey(Tail(l), key)

\* C14: every data row write_relationships writes for a relationship r is
\* the row r.to_csv_row() gives: source_id, dest_id, rel_type and then every
\* property of r; the row of a relationship with a property holds it.
C14_RelRowIsToCsvRow ==
    (parsed_args = Direct("write_relationships") /\ pc \in {"write_relationships", "done"}) =>
        \A key \in DOMAIN output_files :
            streams[output_files[key]].written =
                <<get_rel_header_row(key[1], key[2], key[3])>>
                    \o CsvRowsOfKey(SubSeq(relationships, 1, wi - 1), key)

\* the ASCII control characters, newline, carriage return and tab among them
AsciiControl == (0..31) \cup {127}

\* C15: the text written for a string cell of a node row has the length of
\* the cell; a tab became one space, every other ASCII control character
\* (newline and carriage return among them) became the middle dot 183, every
\* other character is unchanged in place; no control character is left.
C15_StringCellSanitized ==
    (pc = "sanitized" /\ merge_in.t = "str") =>
        /\ Len(merge_out) = Len(merge_in.s)
        /\ \A i \in 1..Len(merge_in.s) :
              /\ merge_in.s[i] = 9 => merge_out[i] = 32
              /\ merge_in.s[i] \in AsciiControl \ {9} => merge_out[i] = 183
              /\ merge_in.s[i] \notin AsciiControl => merge_out[i] = merge_in.s[i]
        /\ \A i \in 1..Len(merge_out) : merge_out[i] \notin AsciiControl

C15_Witness ==
    /\ pc = "sanitized"
    /\ merge_in = PyStr(<<97, 9, 10>>)
    /\ merge_out = <<97, 32, 183>>

\* the identifiers of the entities handed to the writer that is running
IdsOfCall ==
    IF parsed_args = Direct("write_nodes")
    THEN { get_node_id(nodes[i]) : i \in 1..Len(nodes) }
    ELSE { get_rel_id(relationships[i]).source_id : i \in 1..Len(relationships) }
         \cup { get_rel_id(relationships[i]).dest_id : i \in 1..Len(relationships) }

\* the columns of a data row that hold identifiers
IdColumns == IF parsed_args = Direct("write_nodes") THEN {1} ELSE {1, 2}

\* C16: every identity-bearing cell written (the id cell of a node row, the
\* source_id and dest_id cells of a relationship row) is the identifier with
\* its spaces and tabs removed, as cleanup_id gives it, so that an identifier
\* is the same text in the node file and in the relationship file.
C16_IdCellsStripped ==
    parsed_args \in {Direct("write_nodes"), Direct("write_relationships")} =>
        \A k \in 1..Len(streams) : \A r \in 2..Len(streams[k].written) :
            \A c \in IdColumns :
                streams[k].written[r][c] \in { cleanup_id(id) : id \in IdsOfCall }

\* C17 as claimed: reduce returns self for an equal identity tuple and fails
\* with MergeError for an unequal one.
C17_ReduceRaisesMergeError ==
    pc = "rel_reduced" =>
        /\ RelTuple(merge_in[1]) = RelTuple(merge_in[2]) => merge_out.ab = Returned(merge_in[1])
        /\ RelTuple(merge_in[1]) # RelTuple(merge_in[2]) =>
              (~merge_out.ab.ok /\ merge_out.ab.exc.kind = "MergeError")

\* C17 amended: reduce returns self for an equal identity tuple and fails
\* with AssertionError, not MergeError, for an unequal one; map_and_reduce on
\* the two relationships never ends with that failure: unequal ones are both
\* stored without a call of reduce.
C17_ReduceAsserts ==
    pc = "rel_reduced" =>
        /\ RelTuple(merge_in[1]) = RelTuple(merge_in[2]) => merge_out.ab = Returned(merge_in[1])
        /\ RelTuple(merge_in[1]) # RelTuple(merge_in[2]) =>
              /\ merge_out.ab = Raised([kind |-> "AssertionError"])
              /\ merge_out.mapped.exc = NoError
              /\ merge_out.mapped.relationships = merge_in
              /\ merge_out.mapped.num_edge_reductions = 0
        /\ merge_out.mapped.exc.kind \notin {"AssertionError", "MergeError"}

C17_Witness ==
    /\ pc = "rel_reduced"
    /\ merge_in[1].source_id # merge_in[2].source_id
    /\ merge_in[1].rel_type = merge_in[2].rel_type
    /\ merge_out.ab = Raised([kind |-> "AssertionError"])
    /\ Len(merge_out.mapped.relationships) = 2

\* C18: after every record map_and_reduce has processed (and when it has
\* returned), the length of the node list plus the node reductions is the
\* number of candidate nodes map_input returned so far, the same holds of
\* the relationships, and map_input was called once per record taken.
C18_CountersBalance ==
    (~IsDirect /\ (pc = "map_and_reduce" \/ MapReturned)) =>
        /\ Len(nodes) + num_node_reductions = mapped.n_nodes
        /\ Len(relationships) + num_edge_reductions = mapped.n_rels
        /\ mapped.calls = taken

C18_Witness ==
    /\ pc = "map_and_reduce"
    /\ taken = 2
    /\ num_node_reductions = 1
    /\ Len(nodes) = 1
    /\ Len(relationships) = 2
    /\ mapped.n_nodes = 2 /\ mapped.n_rels = 2

\* C19: the text written for a list cell (the elements joined with ';' and
\* the result passed through cleanup_text) is the text obtained by passing
\* each element through cleanup_text and joining the results with ';'.
C19_JoinThenCleanEqualsCleanThenJoin ==
    (pc = "sanitized" /\ merge_in.t = "list") =>
        merge_out = join(<<59>>, [i \in 1..Len(merge_in.l) |-> cleanup_text(merge_in.l[i])])

C19_Witness ==
    /\ pc = "sanitized"
    /\ merge_in = PyList(<< <<9>>, <<10>> >>)
    /\ merge_out = <<32, 59, 183>>

\* the rows of a stream after its first row, the header
DataRows(stream) == IF stream.written = <<>> THEN 0 ELSE Len(stream.written) - 1

RECURSIVE SumRows(_)
SumRows(ss) == IF ss = <<>> THEN 0 ELSE Head(ss).rows + SumRows(Tail(ss))

\* C20: the count a stream reports at its close (OutputFile.rows) is the
\* number of data rows written to it, the header left out, and when
\* write_nodes or write_relationships has ended, by return or by exception,
\* the counts of its streams add up to the number of entities it wrote (all
\* of the list when it returned).
C20_RowsCountDataRows ==
    parsed_args \in {Direct("write_nodes"), Direct("write_relationships")} =>
        /\ \A k \in 1..Len(streams) : streams[k].rows = DataRows(streams[k])
        /\ pc \in {"done", "error"} =>
              /\ \A k \in 1..Len(streams) : streams[k].closes = 1
              /\ SumRows(streams) = wi - 1
        /\ pc = "done" => SumRows(streams) = Len(nodes) + Len(relationships)

C20_Witness ==
    /\ parsed_args = Direct("write_nodes")
    /\ pc = "done"
    /\ Len(nodes) = 3
    /\ Len(streams) = 2
    /\ streams[1].rows = 2 /\ Len(streams[1].written) = 3
    /\ streams[2].rows = 1 /\ Len(streams[2].written) = 2
    /\ streams[1].closes = 1 /\ streams[2].closes = 1

\* the index of map_and_reduce agrees with its list: every value is a
\* position of the list (0-based), the entity there has the key, every entity
\* of the list is indexed, and no key is held twice
IndexAgrees(index, list, key(_)) ==
    /\ \A k \in DOMAIN index :
          /\ index[k] \in 0..(Len(list) - 1)
          /\ key(list[index[k] + 1]) = k
    /\ DOMAIN index = { key(list[i]) : i \in 1..Len(list) }
    /\ \A i \in 1..Len(list) : \A j \in 1..Len(list) :
          key(list[i]) = key(list[j]) => i = j

\* C21: after every candidate map_and_reduce has processed, nodes_to_index
\* agrees with nodes and rels_to_index agrees with relationships; a candidate
\* relationship whose RelId is already indexed is merged (only a MergeError
\* of a node merge ends the loop) and the values of rels_to_index are
\* positions after it.
C21_IndexInvariant ==
    ~IsDirect =>
        /\ pc = "map_and_reduce" =>
              /\ IndexAgrees(nodes_to_index, nodes, NodeKey)
              /\ IndexAgrees(rels_to_index, relationships, get_rel_id)
        /\ mapped.n_rels > Len(mapped.rel_ids) =>
              /\ pc = "error" => err.kind = "MergeError"
              /\ pc # "error" => IndexAgrees(rels_to_index, relationships, get_rel_id)

\* the streams registered in output_files by the writer that is running
OwnStreams == { output_files[key] : key \in DOMAIN output_files }

\* an exception left write_nodes called by run
WriteNodesRaised ==
    /\ ~IsDirect
    /\ pc = "error"
    /\ template = abspath(parsed_args.output_node_files)

\* C22: run merges the whole input before a stream is opened, every node
\* stream is closed before a relationship stream is opened, and when
\* write_nodes raises, run ends there: write_relationships is not started,
\* no relationship stream exists, and the node streams opened so far are
\* closed and keep what was written to them.
C22_PipelineOrder ==
    ~IsDirect =>
        /\ pc \in {"run", "map_and_reduce"} => streams = <<>>
        /\ streams # <<>> => (mapped.calls = taken /\ Len(nodes) <= mapped.n_nodes)
        /\ pc = "write_nodes" => \A k \in 1..Len(streams) : k \in OwnStreams
        /\ pc = "write_relationships" =>
              \A k \in 1..Len(streams) : k \notin OwnStreams => streams[k].closes = 1
        /\ err # NoError => pc = "error"
        /\ WriteNodesRaised =>
              /\ ~ENABLED Next
              /\ DOMAIN output_files \subseteq NodeTypes
              /\ \A k \in 1..Len(streams) :
                    /\ k \in OwnStreams
                    /\ streams[k].closes = 1
                    /\ streams[k].rows = DataRows(streams[k])
              /\ SumRows(streams) = wi - 1

C22_Witness ==
    /\ WriteNodesRaised
    /\ wi = 2
    /\ Len(streams) = 2
    /\ streams[1].rows = 1 /\ Len(streams[1].written) = 2
    /\ streams[1].closes = 1 /\ streams[2].closes = 1
    /\ Len(relationships) >= 1

HasNewline(node) == \E i \in 1..Len(get_node_id(node)) : get_node_id(node)[i] = 10

\* the nodes of the list before the first one whose id holds a newline
RECURSIVE BeforeNewline(_)
BeforeNewline(l) ==
    IF l = <<>> \/ HasNewline(Head(l)) THEN <<>>
    ELSE <<Head(l)>> \o BeforeNewline(Tail(l))

\* C23: write_nodes never goes past a node whose id holds a newline. On the
\* first such node it ends with an AssertionError; the streams are then those
\* of the earlier nodes' types, none was opened for that node, each holds its
\* header and the rows of the earlier nodes and is closed, and nothing more
\* is written.
C23_NewlineIdAborts ==
    parsed_args = Direct("write_nodes") =>
        /\ wi <= Len(BeforeNewline(nodes)) + 1
        /\ pc = "done" => BeforeNewline(nodes) = nodes
        /\ (wi <= Len(nodes) /\ HasNewline(nodes[wi]) /\ pc = "error") =>
              /\ err.kind = "AssertionError"
              /\ ~ENABLED NextWrite
              /\ DOMAIN output_files = NodeTypesOf(BeforeNewline(nodes))
              /\ Len(streams) = Cardinality(NodeTypesOf(BeforeNewline(nodes)))
              /\ \A ty \in DOMAIN output_files :
                    /\ streams[output_files[ty]].written =
                          <<get_node_header_row(ty)>> \o RowsOfType(BeforeNewline(nodes), ty)
                    /\ streams[output_files[ty]].closes = 1

C23_Witness ==
    /\ parsed_args = Direct("write_nodes")
    /\ pc = "error"
    /\ err.kind = "AssertionError"
    /\ Len(nodes) = 3
    /\ wi = 2
    /\ HasNewline(nodes[2])
    /\ get_node_type(nodes[2]) # get_node_type(nodes[1])
    /\ ~HasNewline(nodes[3])
    /\ Len(streams) = 1
    /\ Len(streams[1].written) = 2
    /\ streams[1].closes = 1

IsCtl == parsed_args = Direct("neoctl")

\* the command list holds an unknown command, or create or start while no
\* password is given, or create while the import directory does not exist
BadCommandList ==
    \E i \in 1..Len(argv.command) :
        \/ argv.command[i] \notin Commands
        \/ argv.command[i] \in {"create", "start"} /\ argv.password = None
        \/ argv.command[i] = "create" /\ ~host.import_directory

\* the commands executed so far, the one that raised included
Reached == IF pc = "error" THEN ci ELSE ci - 1

\* the docker invocations and file operations a command can make
EffectsOf(command) ==
    {"docker inspect"} \cup
    (IF command = "create"
     THEN {"rmtree " \o d : d \in Dirs} \cup {"makedirs " \o d : d \in Dirs}
     ELSE IF command = "start" THEN {"remove neo4j.cid", "docker run -d"}
     ELSE IF command = "stop" THEN {"docker stop"}
     ELSE IF command = "destroy" THEN {"docker stop"} \cup {"rmtree " \o d : d \in Dirs}
     ELSE {})

\* C24: main checks every command of the list before it executes any. With
\* a bad command list no command runs: main exits through parser.error with
\* no docker invocation and no file operation made. Otherwise the commands
\* are executed one at a time in list order (an exception of a command ends
\* the list): whatever was done so far was done by a command at or before
\* the position reached, and main returns only after the last.
C24_CommandsCheckedFirst ==
    IsCtl =>
        /\ BadCommandList =>
              /\ pc \in {"main", "error"}
              /\ ci = 1 /\ trace = <<>>
              /\ pc = "error" => (err.kind = "SystemExit" /\ ~ENABLED NextCtl)
        /\ ~BadCommandList =>
              /\ ci \in 1..(Len(argv.command) + 1)
              /\ pc = "error" => (err.kind # "SystemExit" /\ ci <= Len(argv.command))
              /\ pc = "done" => (ci = Len(argv.command) + 1 /\ err = NoError)
        /\ pc = "main" => (ci = 1 /\ trace = <<>>)
        /\ \A e \in SeqSet(trace) : \E i \in 1..Reached : e \in EffectsOf(argv.command[i])

C24_Witness ==
    /\ IsCtl
    /\ pc = "error"
    /\ err = ParserError("Need to specify password for create command")
    /\ argv.command = <<"stop", "create">>
    /\ host.cid_file = "c1" /\ host.container = "running"
    /\ host.import_directory
    /\ trace = <<>>

\* the cid file names a container that docker reports as running
InstanceRunning == host.cid_file = "c1" /\ host.container = "running"

\* there is no container id, or docker reports the container dead or absent
InstanceNotRunning == host.cid_file # "c1" \/ host.container \in {"exited", "gone"}

\* what the step adds to the trace
NewEffects == SubSeq(trace', Len(trace) + 1, Len(trace'))

\* C25: every step of a command keeps the lifecycle guards: create raises and
\* leaves the directories as they are when the instance is running or no
\* nodes-*.csv file exists; start raises without a docker run when the
\* instance is running; stop invokes docker stop exactly when the instance
\* is running and otherwise changes nothing and goes on; destroy on a running
\* instance invokes docker stop before it removes a directory, and removes
\* none when the stop fails.
C25_LifecycleGuards ==
    [][ /\ (AtCommand("create") /\ (InstanceRunning \/ ~host.node_files)) =>
              /\ pc' = "error" /\ err'.kind = "Exception"
              /\ host' = host
              /\ SeqSet(NewEffects) \subseteq {"docker inspect"}
        /\ (AtCommand("start") /\ InstanceRunning) =>
              /\ pc' = "error" /\ err' = Exception("Neo4j is already running")
              /\ host' = host
              /\ SeqSet(NewEffects) \subseteq {"docker inspect"}
        /\ AtCommand("stop") =>
              /\ "docker stop" \in SeqSet(NewEffects) <=> InstanceRunning
              /\ InstanceNotRunning =>
                    /\ host' = host /\ pc' = pc /\ ci' = ci + 1
                    /\ SeqSet(NewEffects) \subseteq {"docker inspect"}
        /\ (AtCommand("destroy") /\ InstanceRunning) =>
              /\ Len(NewEffects) >= 2
              /\ NewEffects[1] = "docker inspect" /\ NewEffects[2] = "docker stop"
              /\ pc' = "error" => (host' = host /\ Len(NewEffects) = 2)
              /\ pc' # "error" => (host'.dirs = {} /\ host'.container = "gone")
      ]_vars

C25_Witness ==
    /\ IsCtl
    /\ pc = "error"
    /\ argv.command = <<"start", "create">>
    /\ ci = 2
    /\ err = Exception("Neo4j is running, destroy it first before attempting a create")
    /\ host.dirs = Dirs /\ InstanceRunning /\ host.node_files
    /\ trace = <<"docker run -d", "docker inspect">>

====
